---- MODULE Spec2Model ----
(***************************************************************************)
(* Model of tools/Generate-ConfigurationDocumentation.py: the value        *)
(* normalizer (simplify_value, simplify_display_value), the extractors,    *)
(* classify_type and the aggregation pass build_entries.                   *)
(*                                                                         *)
(* Python strings are TLA+ strings (TLC evaluates Len, SubSeq, Head, Tail  *)
(* and \o on them).  Every other Python value is a tagged record           *)
(* [t |-> <type>, v |-> <payload>]; a dict is an ordered sequence of       *)
(* <<key, value>> pairs, as Python dicts keep insertion order.             *)
(***************************************************************************)
EXTENDS Integers, Sequences, FiniteSets, TLC

VARIABLES files, json_files, xml_manifests, mc_files, entries, result, pc, call, ret

vars == <<files, json_files, xml_manifests, mc_files, entries, result, pc, call, ret>>

(***************************************************************************)
(* Python values                                                           *)
(***************************************************************************)
PyNone == [t |-> "none", v |-> ""]
PyStr(s) == [t |-> "str", v |-> s]
PyInt(n) == [t |-> "int", v |-> n]
PyBool(b) == [t |-> "bool", v |-> b]
PyList(xs) == [t |-> "list", v |-> xs]
PyDict(kvs) == [t |-> "dict", v |-> kvs]
\* the <data> of a property list
PyBytes(s) == [t |-> "bytes", v |-> s]

\* bool(x): the truth value Python gives a value in `if x` / `not x`
Truthy(x) ==
  CASE x.t = "none" -> FALSE
    [] x.t = "str" -> x.v # ""
    [] x.t = "int" -> x.v # 0
    [] x.t = "bool" -> x.v
    [] x.t = "list" -> Len(x.v) > 0
    [] x.t = "dict" -> Len(x.v) > 0
    [] x.t = "bytes" -> x.v # ""

\* d.get(k, default) on a dict value
DictGet(d, k, default) ==
  LET hits == {i \in 1..Len(d.v) : d.v[i][1] = k}
  IN IF hits = {} THEN default ELSE d.v[CHOOSE i \in hits : TRUE][2]

HasKey(d, k) == \E i \in 1..Len(d.v) : d.v[i][1] = k

(***************************************************************************)
(* Python str operations                                                   *)
(***************************************************************************)
Max(S) == CHOOSE x \in S : \A y \in S : y <= x
Min(S) == CHOOSE x \in S : \A y \in S : x <= y

Char(s, i) == SubSeq(s, i, i)

\* s[:n] and s[n:] for 0 <= n
Take(s, n) == IF n <= 0 THEN "" ELSE IF n >= Len(s) THEN s ELSE SubSeq(s, 1, n)
Drop(s, n) == IF n <= 0 THEN s ELSE IF n >= Len(s) THEN "" ELSE SubSeq(s, n + 1, Len(s))

StartsWith(s, p) == Len(p) <= Len(s) /\ Take(s, Len(p)) = p
EndsWith(s, p) == Len(p) <= Len(s) /\ Drop(s, Len(s) - Len(p)) = p

\* p in s
Contains(s, p) ==
  \E i \in 0..(Len(s) - Len(p)) : Take(Drop(s, i), Len(p)) = p

\* The printable ASCII characters in code-point order: 32 (space) to 95, and
\* 97 to 126 (a TLA+ string cannot hold the character 96, the backquote).
AsciiLow == " !\"#$%&'()*+,-./0123456789:;<=>?@ABCDEFGHIJKLMNOPQRSTUVWXYZ[\\]^_"
AsciiHigh == "abcdefghijklmnopqrstuvwxyz{|}~"

AsciiChars ==
  {SubSeq(AsciiLow, i, i) : i \in 1..Len(AsciiLow)} \cup {SubSeq(AsciiHigh, i, i) : i \in 1..Len(AsciiHigh)}

OrdTable ==
  [c \in AsciiChars |->
     IF \E i \in 1..Len(AsciiLow) : SubSeq(AsciiLow, i, i) = c
     THEN 31 + (CHOOSE i \in 1..Len(AsciiLow) : SubSeq(AsciiLow, i, i) = c)
     ELSE 96 + (CHOOSE i \in 1..Len(AsciiHigh) : SubSeq(AsciiHigh, i, i) = c)]

\* ord(c)
Ord(c) == OrdTable[c]

\* chr(n), for the printable ASCII range
Chr(n) == IF n <= 95 THEN SubSeq(AsciiLow, n - 31, n - 31) ELSE SubSeq(AsciiHigh, n - 96, n - 96)

IsLowerAZ(c) == c \in AsciiChars /\ Ord(c) >= 97 /\ Ord(c) <= 122
IsUpperAZ(c) == c \in AsciiChars /\ Ord(c) >= 65 /\ Ord(c) <= 90
IsDigit(c) == c \in AsciiChars /\ Ord(c) >= 48 /\ Ord(c) <= 57

RECURSIVE Lower(_)
\* s.lower()
Lower(s) ==
  IF s = "" THEN ""
  ELSE IF Len(s) = 1 THEN (IF IsUpperAZ(s) THEN Chr(Ord(s) + 32) ELSE s)
  ELSE Lower(Take(s, Len(s) \div 2)) \o Lower(Drop(s, Len(s) \div 2))

\* s.split('.')[-1]
LastSegment(s) ==
  LET dots == {i \in 1..Len(s) : Char(s, i) = "."}
  IN IF dots = {} THEN s ELSE Drop(s, Max(dots))

\* s.lstrip('_')
LStripUnderscore(s) ==
  LET keep == {i \in 1..Len(s) : Char(s, i) # "_"}
  IN IF keep = {} THEN "" ELSE Drop(s, Min(keep) - 1)

\* s.strip(), for the whitespace characters space, tab and newline
IsSpace(c) == c \in {" ", "\t", "\n"}

Strip(s) ==
  LET keep == {i \in 1..Len(s) : ~IsSpace(Char(s, i))}
  IN IF keep = {} THEN "" ELSE SubSeq(s, Min(keep), Max(keep))

\* a < b on str: lexicographic by code point
StrLess(a, b) ==
  LET diff == {i \in 1..Min({Len(a), Len(b)}) : Char(a, i) # Char(b, i)}
  IN IF diff = {} THEN Len(a) < Len(b)
     ELSE Ord(Char(a, Min(diff))) < Ord(Char(b, Min(diff)))

RECURSIVE NatToStr(_)
NatToStr(n) ==
  IF n < 10 THEN Chr(48 + n) ELSE NatToStr(n \div 10) \o Chr(48 + (n % 10))

\* str(n) for an int
IntToStr(n) == IF n < 0 THEN "-" \o NatToStr(0 - n) ELSE NatToStr(n)

RECURSIVE Rep(_, _)
\* s * n
Rep(s, n) ==
  IF n <= 0 THEN "" ELSE IF n = 1 THEN s ELSE Rep(s, n \div 2) \o Rep(s, n - (n \div 2))

\* simplify_display_value without lines 146-147: no value is taken for a placeholder
HasPlaceholder_Never(s) == FALSE

\* re.search(r"{{.*?}}", s): "{{", then any characters but newline, then "}}"
HasPlaceholder(s) ==
  \E i \in 1..(Len(s) - 3) :
    /\ SubSeq(s, i, i + 1) = "{{"
    /\ \E j \in (i + 2)..(Len(s) - 1) :
         /\ SubSeq(s, j, j + 1) = "}}"
         /\ \A k \in (i + 2)..(j - 1) : Char(s, k) # "\n"

(***************************************************************************)
(* simplify_value, simplify_display_value                                  *)
(***************************************************************************)
MaxValueLen == 120
TruncatedLen == 117

RECURSIVE JsonEscape(_)
\* the escaping json.dumps applies to the printable ASCII characters
JsonEscape(s) ==
  IF s = "" THEN ""
  ELSE IF Len(s) = 1 THEN (IF s = "\"" THEN "\\\"" ELSE IF s = "\\" THEN "\\\\" ELSE s)
  ELSE JsonEscape(Take(s, Len(s) \div 2)) \o JsonEscape(Drop(s, Len(s) \div 2))

RECURSIVE JsonDumps(_)
RECURSIVE JsonDumpsItems(_, _, _)
\* json.dumps(val) with the default separators ", " and ": "
JsonDumps(x) ==
  CASE x.t = "none" -> "null"
    [] x.t = "bool" -> IF x.v THEN "true" ELSE "false"
    [] x.t = "int" -> IntToStr(x.v)
    [] x.t = "str" -> "\"" \o JsonEscape(x.v) \o "\""
    [] x.t = "list" -> "[" \o JsonDumpsItems(x.v, 1, FALSE) \o "]"
    [] x.t = "dict" -> "{" \o JsonDumpsItems(x.v, 1, TRUE) \o "}"

JsonDumpsItems(xs, i, keyed) ==
  IF i > Len(xs) THEN ""
  ELSE (IF i > 1 THEN ", " ELSE "")
       \o (IF keyed THEN "\"" \o JsonEscape(xs[i][1]) \o "\": " \o JsonDumps(xs[i][2])
           ELSE JsonDumps(xs[i]))
       \o JsonDumpsItems(xs, i + 1, keyed)

\* simplify_value cutting a long string at 120 characters before the marker
simplify_value_CutAtLimit(val) ==
  CASE val.t = "none" -> ""
    [] val.t = "int" -> IntToStr(val.v)
    [] val.t = "bool" -> IF val.v THEN "True" ELSE "False"
    [] val.t = "str" ->
         IF Len(val.v) > MaxValueLen THEN Take(val.v, MaxValueLen) \o "..." ELSE val.v
    [] OTHER -> JsonDumps(val)

\* A bool is an int in Python, so isinstance(val, (int, float)) takes it and
\* str(True) is "True".
simplify_value(val) ==
  CASE val.t = "none" -> ""
    [] val.t = "int" -> IntToStr(val.v)
    [] val.t = "bool" -> IF val.v THEN "True" ELSE "False"
    [] val.t = "str" ->
         IF Len(val.v) > MaxValueLen THEN Take(val.v, TruncatedLen) \o "..." ELSE val.v
    [] OTHER -> JsonDumps(val)

BOOLEAN_SUFFIXES == << <<"_true", "True">>, <<"_false", "False">> >>

\* The loop body with val.endswith(suf) in place of lower_val.endswith(suf)
BooleanSuffixMaps_CaseSensitive(key, val, i) ==
  LET suf == BOOLEAN_SUFFIXES[i][1]
      prefix_part == Take(val, Len(val) - Len(suf))
  IN /\ EndsWith(val, suf)
     /\ \/ StartsWith(key, LastSegment(prefix_part))
        \/ EndsWith(prefix_part, LastSegment(key))
        \/ prefix_part = key

\* One pass of the loop body over BOOLEAN_SUFFIXES[i]: TRUE when it returns mapped.
BooleanSuffixMaps(key, val, i) ==
  LET suf == BOOLEAN_SUFFIXES[i][1]
      prefix_part == Take(val, Len(val) - Len(suf))
  IN /\ EndsWith(Lower(val), suf)
     /\ \/ StartsWith(key, LastSegment(prefix_part))
        \/ EndsWith(prefix_part, LastSegment(key))
        \/ prefix_part = key

\* simplify_display_value without its first strip (key plus one underscore):
\* only the strip of key and all the underscores after it is left
StripKeyPrefix_LstripOnly(key, val) ==
  IF StartsWith(val, key) /\ LStripUnderscore(Drop(val, Len(key))) # ""
  THEN LStripUnderscore(Drop(val, Len(key)))
  ELSE val

\* The tail of simplify_display_value, after the boolean-suffix loop fell through.
StripKeyPrefix(key, val) ==
  IF StartsWith(val, key \o "_") THEN Drop(val, Len(key) + 1)
  ELSE IF StartsWith(val, key) /\ LStripUnderscore(Drop(val, Len(key))) # ""
  THEN LStripUnderscore(Drop(val, Len(key)))
  ELSE val

\* key is a str here; simplify_value always returns a str, so the
\* isinstance(val, str) test never takes its early return.
simplify_display_value(key, raw_val) ==
  LET val == simplify_value(raw_val)
      hits == {i \in 1..Len(BOOLEAN_SUFFIXES) : BooleanSuffixMaps(key, val, i)}
  IN IF HasPlaceholder(val) THEN val
     ELSE IF hits # {} THEN BOOLEAN_SUFFIXES[Min(hits)][2]
     ELSE StripKeyPrefix(key, val)

(***************************************************************************)
(* Extractors.  A function that can raise returns [raised, out]: raised    *)
(* says that an exception left it, out is the list it returned otherwise.  *)
(***************************************************************************)
Ok(out) == [raised |-> FALSE, out |-> out]
Raised == [raised |-> TRUE, out |-> <<>>]

\* Two steps in sequence appending to the same list; an exception in either
\* leaves the function.
Then(a, b) == IF a.raised \/ b.raised THEN Raised ELSE Ok(a.out \o b.out)

RECURSIVE PyRepr(_)
RECURSIVE PyReprItems(_, _, _)
\* repr(x); for a str, the single-quoted form of a string holding neither a
\* quote nor a backslash
PyRepr(x) ==
  CASE x.t = "none" -> "None"
    [] x.t = "bool" -> IF x.v THEN "True" ELSE "False"
    [] x.t = "int" -> IntToStr(x.v)
    [] x.t = "str" -> "'" \o x.v \o "'"
    [] x.t = "list" -> "[" \o PyReprItems(x.v, 1, FALSE) \o "]"
    [] x.t = "dict" -> "{" \o PyReprItems(x.v, 1, TRUE) \o "}"

PyReprItems(xs, i, keyed) ==
  IF i > Len(xs) THEN ""
  ELSE (IF i > 1 THEN ", " ELSE "")
       \o (IF keyed THEN "'" \o xs[i][1] \o "': " \o PyRepr(xs[i][2]) ELSE PyRepr(xs[i]))
       \o PyReprItems(xs, i + 1, keyed)

\* f"{x}": str(x)
PyFormat(x) == IF x.t = "str" THEN x.v ELSE PyRepr(x)

\* The key of an emitted pair.  sdid itself is the key; an identifier that is
\* not a str is shown the way the report prints it.
SettingKey(sdid) == PyFormat(sdid)

\* out.append((k, simplify_display_value(sdid, val))).  With an sdid that is
\* not a str, simplify_display_value returns only for a placeholder value; past
\* that it raises at key.startswith or at key + "_".
DisplayPair(sdid, k, val) ==
  IF sdid.t = "str" THEN Ok(<< <<k, simplify_display_value(sdid.v, val)>> >>)
  ELSE IF HasPlaceholder(simplify_value(val)) THEN Ok(<< <<k, simplify_value(val)>> >>)
  ELSE Raised

\* A carrier that is a dict with a non-None "value" (lines 88-92 and 94-98)
CarrierPairs(node, sdid, carrier) ==
  LET block == DictGet(node, carrier, PyNone)
      val == DictGet(block, "value", PyNone)
  IN IF block.t = "dict" /\ val.t # "none"
     THEN DisplayPair(sdid, SettingKey(sdid), val)
     ELSE Ok(<<>>)

RECURSIVE CollectionItems_OneBased(_, _, _)
\* the loop with the position counted from 1 in the key
CollectionItems_OneBased(sdid, block, i) ==
  IF i > Len(block) THEN Ok(<<>>)
  ELSE LET item == block[i]
           val == DictGet(item, "value", PyNone)
           this == IF item.t = "dict" /\ val.t # "none"
                   THEN DisplayPair(sdid, PyFormat(sdid) \o "[" \o IntToStr(i) \o "]", val)
                   ELSE Ok(<<>>)
       IN Then(this, CollectionItems_OneBased(sdid, block, i + 1))

RECURSIVE CollectionItems(_, _, _)
\* for idx, item in enumerate(collection_block), from the 1-based position i
CollectionItems(sdid, block, i) ==
  IF i > Len(block) THEN Ok(<<>>)
  ELSE LET item == block[i]
           val == DictGet(item, "value", PyNone)
           this == IF item.t = "dict" /\ val.t # "none"
                   THEN DisplayPair(sdid, PyFormat(sdid) \o "[" \o IntToStr(i - 1) \o "]", val)
                   ELSE Ok(<<>>)
       IN Then(this, CollectionItems(sdid, block, i + 1))

CollectionPairs(node, sdid) ==
  LET block == DictGet(node, "simpleSettingCollectionValue", PyNone)
  IN IF block.t = "list" THEN CollectionItems(sdid, block.v, 1) ELSE Ok(<<>>)

\* The carriers as an if/elif chain: the first one present is the only one read
NodePairs_Exclusive(node) ==
  LET sdid == DictGet(node, "settingDefinitionId", PyNone)
  IN IF ~Truthy(sdid) THEN Ok(<<>>)
     ELSE IF HasKey(node, "choiceSettingValue") THEN CarrierPairs(node, sdid, "choiceSettingValue")
     ELSE IF HasKey(node, "simpleSettingValue") THEN CarrierPairs(node, sdid, "simpleSettingValue")
     ELSE CollectionPairs(node, sdid)

\* The pairs a dict node contributes itself (lines 85-107)
NodePairs(node) ==
  LET sdid == DictGet(node, "settingDefinitionId", PyNone)
  IN IF Truthy(sdid)
     THEN Then(Then(CarrierPairs(node, sdid, "choiceSettingValue"),
                    CarrierPairs(node, sdid, "simpleSettingValue")),
               CollectionPairs(node, sdid))
     ELSE Ok(<<>>)

\* node.values()
DictValues(node) == [i \in 1..Len(node.v) |-> node.v[i][2]]

RECURSIVE walk(_)
RECURSIVE walkEach(_, _)
\* walk descending only into the dicts that carry no identifier
walk_StopAtSetting(node) ==
  IF node.t = "dict"
  THEN (IF Truthy(DictGet(node, "settingDefinitionId", PyNone)) THEN NodePairs(node)
        ELSE walkEach(DictValues(node), 1))
  ELSE IF node.t = "list" THEN walkEach(node.v, 1)
  ELSE Ok(<<>>)

walk(node) ==
  IF node.t = "dict" THEN Then(NodePairs(node), walkEach(DictValues(node), 1))
  ELSE IF node.t = "list" THEN walkEach(node.v, 1)
  ELSE Ok(<<>>)

walkEach(xs, i) ==
  IF i > Len(xs) THEN Ok(<<>>) ELSE Then(walk(xs[i]), walkEach(xs, i + 1))

\* json_doc is a dict
extract_settings_catalog(json_doc) == walk(DictGet(json_doc, "settings", PyList(<<>>)))

METADATA_KEYS == {"PayloadDisplayName", "PayloadIdentifier", "PayloadType", "PayloadUUID", "PayloadVersion"}

\* The pair of one payload field (lines 180-186); a value that is neither a
\* str, a number, a list nor a dict (the <data> and <date> of a property
\* list) gives nothing.
PayloadFieldPairs(prefix, k, v) ==
  IF k \in METADATA_KEYS THEN <<>>
  ELSE IF v.t \in {"str", "int", "bool"} THEN << <<PyFormat(prefix) \o "." \o k, simplify_value(v)>> >>
  ELSE IF v.t \in {"list", "dict"} THEN << <<PyFormat(prefix) \o "." \o k, "complex:" \o v.t>> >>
  ELSE <<>>

RECURSIVE PayloadFields(_, _, _)
\* for k, v in payload.items(), from position i
PayloadFields(prefix, payload, i) ==
  IF i > Len(payload.v) THEN <<>>
  ELSE PayloadFieldPairs(prefix, payload.v[i][1], payload.v[i][2]) \o PayloadFields(prefix, payload, i + 1)

RECURSIVE Payloads(_, _)
\* for payload in payloads, from position i of a list
Payloads(payloads, i) ==
  IF i > Len(payloads) THEN <<>>
  ELSE (IF payloads[i].t = "dict"
        THEN PayloadFields(DictGet(payloads[i], "PayloadType", PyStr("payload")), payloads[i], 1)
        ELSE <<>>)
       \o Payloads(payloads, i + 1)

\* plist_doc is a dict.  Iterating a str, a dict or bytes meets no dict;
\* iterating a number raises.
extract_mobileconfig(plist_doc) ==
  LET payloads == DictGet(plist_doc, "PayloadContent", PyList(<<>>))
  IN IF payloads.t = "list" THEN Ok(Payloads(payloads.v, 1))
     ELSE IF payloads.t \in {"str", "dict", "bytes"} THEN Ok(<<>>)
     ELSE Raised

IGNORE_KEYS ==
  {"@odata.type", "displayName", "description", "id", "createdDateTime",
   "lastModifiedDateTime", "version", "roleScopeTagIds"}

RECURSIVE ActionPairs(_, _, _, _)
\* for cidx, config in enumerate(configs), from position i of a list
ActionPairs(key, rule_name, configs, i) ==
  IF i > Len(configs) THEN <<>>
  ELSE (IF configs[i].t = "dict"
        THEN << <<key \o "." \o PyFormat(rule_name) \o ".action_" \o IntToStr(i - 1),
                  PyFormat(DictGet(configs[i], "actionType", PyStr("unknown")))
                    \o " (grace: " \o PyFormat(DictGet(configs[i], "gracePeriodHours", PyInt(0))) \o "h)">> >>
        ELSE <<>>)
       \o ActionPairs(key, rule_name, configs, i + 1)

\* One rule of scheduledActionsForRule, at 0-based idx (lines 205-214).
\* len(configs) raises for a number; the elements of a str or of a dict are
\* no dicts.
RulePairs(key, rule, idx) ==
  LET rule_name == DictGet(rule, "ruleName", PyStr("rule_" \o IntToStr(idx)))
      configs == DictGet(rule, "scheduledActionConfigurations", PyList(<<>>))
  IN IF rule.t # "dict" \/ ~Truthy(configs) THEN Ok(<<>>)
     ELSE IF configs.t \in {"int", "bool"} THEN Raised
     ELSE Ok(<< <<key \o "." \o PyFormat(rule_name) \o ".actionCount", IntToStr(Len(configs.v))>> >>
             \o (IF configs.t = "list" THEN ActionPairs(key, rule_name, configs.v, 1) ELSE <<>>))

RECURSIVE Rules(_, _, _)
Rules(key, rules, i) ==
  IF i > Len(rules) THEN Ok(<<>>)
  ELSE Then(RulePairs(key, rules[i], i - 1), Rules(key, rules, i + 1))

RECURSIVE CompliancePairs(_, _)
\* for key, value in json_doc.items(), from position i
CompliancePairs(json_doc, i) ==
  IF i > Len(json_doc.v) THEN Ok(<<>>)
  ELSE LET key == json_doc.v[i][1]
           value == json_doc.v[i][2]
           this == IF key \in IGNORE_KEYS THEN Ok(<<>>)
                   ELSE IF key = "scheduledActionsForRule" /\ value.t = "list"
                   THEN Rules(key, value.v, 1)
                   ELSE Ok(<< <<key, simplify_value(value)>> >>)
       IN Then(this, CompliancePairs(json_doc, i + 1))

extract_compliance_policy(json_doc) == CompliancePairs(json_doc, 1)

(***************************************************************************)
(* classify_type                                                           *)
(***************************************************************************)
\* re.match(r"([a-z]{3})-([a-z]{3})-(\d{3})", name): anchored at the start only
RefIdMatch(name) ==
  /\ Len(name) >= 11
  /\ \A i \in 1..3 : IsLowerAZ(Char(name, i))
  /\ Char(name, 4) = "-"
  /\ \A i \in 5..7 : IsLowerAZ(Char(name, i))
  /\ Char(name, 8) = "-"
  /\ \A i \in 9..11 : IsDigit(Char(name, i))

TypeMapping ==
  << <<"pol", "Policy">>, <<"cfg", "CustomConfig">>, <<"cmp", "Compliance">>,
     <<"scr", "Script">>, <<"cat", "CustomAttribute">>, <<"app", "Package">> >>

KnownPrefixes == {TypeMapping[i][1] : i \in 1..Len(TypeMapping)}

\* mapping.get(prefix, "Unknown")
MappingGet(prefix) ==
  IF prefix \in KnownPrefixes
  THEN TypeMapping[CHOOSE i \in 1..Len(TypeMapping) : TypeMapping[i][1] = prefix][2]
  ELSE "Unknown"

\* classify_type with "Unknown" as the fallback of a name outside the pattern
ClassifyFallback_Unknown(name) ==
  IF EndsWith(name, ".mobileconfig") THEN "CustomConfig" ELSE "Unknown"

\* The fallback of classify_type for a name the ref-ID pattern does not match.
ClassifyFallback(name) ==
  IF EndsWith(name, ".mobileconfig") THEN "CustomConfig" ELSE "Policy"

classify_type(name) ==
  IF RefIdMatch(name) THEN MappingGet(Take(name, 3)) ELSE ClassifyFallback(name)

(***************************************************************************)
(* The input tree.  A file is [dir, name, parsed, doc, root, elems]: dir   *)
(* is the sequence of directory names below REPO_ROOT; parsed says whether *)
(* json.loads, plistlib.load or ET.parse accepts the content; doc is the   *)
(* parsed JSON or property list; root and elems are the root tag and the   *)
(* root's child elements of a parsed XML file, an element being            *)
(* [tag, text, children] with text None (PyNone) for an empty element.     *)
(***************************************************************************)
RECURSIVE JoinPath(_)
JoinPath(parts) ==
  IF Len(parts) = 0 THEN ""
  ELSE IF Len(parts) = 1 THEN parts[1]
  ELSE parts[1] \o "/" \o JoinPath(Tail(parts))

\* str(f.relative_to(REPO_ROOT))
RelPath(f) == JoinPath(Append(f.dir, f.name))

\* PurePath.name of a relative path given as a str
PathName(rel) ==
  LET slashes == {i \in 1..Len(rel) : Char(rel, i) = "/"}
  IN IF slashes = {} THEN rel ELSE Drop(rel, Max(slashes))

\* PurePath.stem: the name without its last suffix
Stem(name) ==
  LET dots == {i \in 1..Len(name) : Char(name, i) = "."}
  IN IF dots = {} \/ Max(dots) = 1 \/ Max(dots) = Len(name) THEN name
     ELSE Take(name, Max(dots) - 1)

\* Path.exists() of REPO_ROOT / rel: a file of the tree or one of its directories
Exists(rel, tree) ==
  \E f \in tree : rel = RelPath(f) \/ \E k \in 1..Len(f.dir) : rel = JoinPath(SubSeq(f.dir, 1, k))

\* a < b on two sequences of str (path parts)
SeqLess(a, b) ==
  LET diff == {i \in 1..Min({Len(a), Len(b)}) : a[i] # b[i]}
  IN IF diff = {} THEN Len(a) < Len(b) ELSE StrLess(a[Min(diff)], b[Min(diff)])

\* Path.__lt__: by parts
PathLess(f, g) == SeqLess(Append(f.dir, f.name), Append(g.dir, g.name))

RECURSIVE SortedFiles(_)
\* sorted(S) for a set of files with distinct paths
SortedFiles(S) ==
  IF S = {} THEN <<>>
  ELSE LET first == CHOOSE f \in S : \A g \in S \ {f} : PathLess(f, g)
       IN <<first>> \o SortedFiles(S \ {first})

\* A glob pattern is [dir, deep, ext]: dir/*ext, or dir/**/*ext when deep.
JSON_GLOB ==
  << [dir |-> <<"configurations", "intune">>, deep |-> FALSE, ext |-> ".json"],
     [dir |-> <<"configurations", "entra">>, deep |-> FALSE, ext |-> ".json"],
     [dir |-> <<"configurations">>, deep |-> TRUE, ext |-> ".json"],
     [dir |-> <<"mde">>, deep |-> FALSE, ext |-> ".json"] >>

MOBILECONFIG_GLOB ==
  << [dir |-> <<"configurations", "intune">>, deep |-> FALSE, ext |-> ".mobileconfig"],
     [dir |-> <<"configurations", "entra">>, deep |-> FALSE, ext |-> ".mobileconfig"],
     [dir |-> <<"mde">>, deep |-> FALSE, ext |-> ".mobileconfig"] >>

GlobMatches(pattern, f) ==
  /\ EndsWith(f.name, pattern.ext)
  /\ IF pattern.deep
     THEN Len(f.dir) >= Len(pattern.dir) /\ SubSeq(f.dir, 1, Len(pattern.dir)) = pattern.dir
     ELSE f.dir = pattern.dir

RECURSIVE Repeat(_, _)
Repeat(x, n) == IF n <= 0 THEN <<>> ELSE <<x>> \o Repeat(x, n - 1)

RECURSIVE Expand(_, _)
\* every file of a sorted list as often as the patterns matched it
Expand(sorted, patterns) ==
  IF sorted = <<>> THEN <<>>
  ELSE Repeat(Head(sorted), Cardinality({i \in 1..Len(patterns) : GlobMatches(patterns[i], Head(sorted))}))
       \o Expand(Tail(sorted), patterns)

\* gather_files(patterns, suffix): a file two patterns match is listed twice;
\* the pattern's extension already is the suffix asked for
gather_files(patterns, tree) ==
  Expand(SortedFiles({f \in tree : \E i \in 1..Len(patterns) : GlobMatches(patterns[i], f)}), patterns)

\* REPO_ROOT.rglob("*.xml"), as a set: the order is the file system's
XmlFiles(tree) == {f \in tree : EndsWith(f.name, ".xml")}

\* root.find(tag): the position of the first child with that tag, 0 for None
Find(elems, tag) ==
  LET hits == {i \in 1..Len(elems) : elems[i].tag = tag}
  IN IF hits = {} THEN 0 ELSE Min(hits)

\* el.text.strip() if el is not None and el.text else default
TextOr(elems, tag, default) ==
  LET i == Find(elems, tag)
  IN IF i # 0 /\ Truthy(elems[i].text) THEN PyStr(Strip(elems[i].text.v)) ELSE default

\* load_manifest_metadata(source_path): a dict with the keys name, description
\* and type, an absent key being PyNone here
load_manifest_metadata(f, tree) ==
  LET manifests == {m \in tree : m.dir = f.dir /\ m.name = Stem(f.name) \o ".xml"}
      m == CHOOSE m \in manifests : TRUE
  IN IF manifests = {} \/ ~m.parsed
     THEN [name |-> PyNone, description |-> PyNone, type |-> PyNone]
     ELSE [name |-> TextOr(m.elems, "Name", PyNone),
           description |-> TextOr(m.elems, "Description", PyNone),
           type |-> TextOr(m.elems, "Type", PyNone)]

(***************************************************************************)
(* build_entries, one loop iteration at a time.  An entry carries the      *)
(* fields of the source's dict and origin, the loop that appended it       *)
(* (not a field of the source; neither the dedup key nor the sort key      *)
(* reads it).                                                              *)
(***************************************************************************)
\* needle in x raises for None and for a number
CanContain(x) == x.t \in {"str", "list", "dict"}

IsIn(needle, x) ==
  CASE x.t = "str" -> Contains(x.v, needle)
    [] x.t = "list" -> \E i \in 1..Len(x.v) : x.v[i] = PyStr(needle)
    [] x.t = "dict" -> HasKey(x, needle)

\* lines 441-444
PlatformRestrictionPairs(doc) ==
  LET pr == DictGet(doc, "platformRestriction", PyDict(<<>>))
  IN IF pr.t = "dict"
     THEN [i \in 1..Len(pr.v) |-> <<"platformRestriction." \o pr.v[i][1], simplify_value(pr.v[i][2])>>]
     ELSE <<>>

\* The chain with the compliance extractor tried first for a compliance
\* discriminator, before the settings catalog
JsonSettings_ComplianceFirst(doc) ==
  LET odata_type == DictGet(doc, "@odata.type", PyStr(""))
      catalog == extract_settings_catalog(doc)
  IN IF ~CanContain(odata_type) \/ odata_type.t # "str" THEN Raised
     ELSE IF IsIn("CompliancePolicy", odata_type) /\ extract_compliance_policy(doc).out # <<>>
     THEN extract_compliance_policy(doc)
     ELSE IF catalog.raised \/ catalog.out # <<>> THEN catalog
     ELSE IF EndsWith(odata_type.v, "deviceEnrollmentPlatformRestriction")
     THEN Ok(PlatformRestrictionPairs(doc))
     ELSE Ok(<<>>)

\* lines 429-444, for a doc that is a dict: the settings of a JSON document
JsonSettings(doc) ==
  LET odata_type == DictGet(doc, "@odata.type", PyStr(""))
      catalog == extract_settings_catalog(doc)
      compliance == IF IsIn("CompliancePolicy", odata_type)
                    THEN extract_compliance_policy(doc)
                    ELSE Ok(<<>>)
  IN IF catalog.raised \/ catalog.out # <<>> THEN catalog
     ELSE IF ~CanContain(odata_type) THEN Raised
     ELSE IF compliance.raised \/ compliance.out # <<>> THEN compliance
     ELSE IF odata_type.t # "str" THEN Raised
     ELSE IF EndsWith(odata_type.v, "deviceEnrollmentPlatformRestriction")
     THEN Ok(PlatformRestrictionPairs(doc))
     ELSE Ok(<<>>)

\* lines 446-460
JsonEntry(f, settings, tree) ==
  LET manifest_meta == load_manifest_metadata(f, tree)
  IN [ref |-> Stem(f.name),
      type |-> IF manifest_meta.type.t # "none" THEN manifest_meta.type.v ELSE classify_type(f.name),
      relpath |-> RelPath(f),
      name |-> manifest_meta.name,
      description |-> manifest_meta.description,
      settings |-> settings,
      count |-> Len(settings),
      origin |-> "json"]

\* The loop body for a file whose JSON parsed: doc.get raises unless doc is a dict
JsonParsed(f, es, tree) ==
  IF ~Truthy(f.doc) THEN Ok(es)
  ELSE IF f.doc.t # "dict" \/ JsonSettings(f.doc).raised THEN Raised
  ELSE Ok(Append(es, JsonEntry(f, JsonSettings(f.doc).out, tree)))

\* The loop body with a parse error leaving safe_read_json
JsonStep_NoCatch(f, es, tree) == IF f.parsed THEN JsonParsed(f, es, tree) ELSE Raised

\* One iteration of `for f in json_files` (lines 423-460) on the list es;
\* safe_read_json returns None for a file that does not parse
JsonStep(f, es, tree) == IF f.parsed THEN JsonParsed(f, es, tree) ELSE Ok(es)

MANIFEST_ONLY_TYPES == {"Script", "Package", "CustomAttribute"}

\* lines 496-507
RECURSIVE SubtreeSettings(_, _)
SubtreeSettings(children, i) ==
  IF i > Len(children) THEN <<>>
  ELSE (IF Truthy(children[i].text)
        THEN << <<children[i].tag, Strip(children[i].text.v)>> >>
        ELSE <<>>)
       \o SubtreeSettings(children, i + 1)

ManifestSettings(m, artifact_type) ==
  IF artifact_type \in MANIFEST_ONLY_TYPES /\ Find(m.elems, artifact_type) # 0
  THEN SubtreeSettings(m.elems[Find(m.elems, artifact_type)].children, 1)
  ELSE <<>>

\* lines 508-516
ManifestEntry(m, artifact_type, rel_source, tree) ==
  [ref |-> IF Exists(rel_source, tree) THEN Stem(PathName(rel_source)) ELSE Stem(m.name),
   type |-> artifact_type,
   relpath |-> rel_source,
   name |-> TextOr(m.elems, "Name", PyNone),
   description |-> TextOr(m.elems, "Description", PyStr("")),
   settings |-> ManifestSettings(m, artifact_type),
   count |-> Len(ManifestSettings(m, artifact_type)),
   origin |-> "manifest"]

\* lines 485-488: the manifests the comment says are always skipped
CoveredByPrimary(artifact_type, rel_source) ==
  \/ artifact_type \in {"Policy", "CustomConfig", "Compliance"} /\ EndsWith(rel_source, ".json")
  \/ artifact_type = "CustomConfig" /\ EndsWith(rel_source, ".mobileconfig")

\* One iteration of `for mpath in xml_manifests` (lines 465-518).  Every
\* exception (ET.parse, .strip() of a None text) is caught and skips the manifest.
ManifestStep(m, es, tree) ==
  LET type_el == Find(m.elems, "Type")
      src_el == Find(m.elems, "SourceFile")
      artifact_type == Strip(m.elems[type_el].text.v)
      rel_source == Strip(m.elems[src_el].text.v)
  IN IF ~m.parsed \/ m.root # "MacIntuneManifest" THEN es
     ELSE IF type_el = 0 \/ src_el = 0 THEN es
     ELSE IF m.elems[type_el].text.t = "none" \/ m.elems[src_el].text.t = "none" THEN es
     ELSE IF CoveredByPrimary(artifact_type, rel_source) THEN es
     ELSE IF \E i \in 1..Len(es) : es[i].relpath = rel_source THEN es
     ELSE Append(es, ManifestEntry(m, artifact_type, rel_source, tree))

\* lines 523-538
McEntry(f, settings, tree) ==
  LET manifest_meta == load_manifest_metadata(f, tree)
  IN [ref |-> Stem(f.name),
      type |-> IF manifest_meta.type.t # "none" THEN manifest_meta.type.v ELSE classify_type(f.name),
      relpath |-> RelPath(f),
      name |-> IF Truthy(manifest_meta.name) THEN manifest_meta.name
               ELSE DictGet(f.doc, "PayloadDisplayName", PyNone),
      description |-> IF manifest_meta.description.t = "none" THEN PyStr("")
                      ELSE manifest_meta.description,
      settings |-> settings,
      count |-> Len(settings),
      origin |-> "mobileconfig"]

\* One iteration of `for f in mc_files` (lines 519-538); plist_doc.get raises
\* unless the property list is a dict
McStep(f, es, tree) ==
  IF ~f.parsed \/ ~Truthy(f.doc) THEN Ok(es)
  ELSE IF f.doc.t # "dict" \/ extract_mobileconfig(f.doc).raised THEN Raised
  ELSE Ok(Append(es, McEntry(f, extract_mobileconfig(f.doc).out, tree)))

Identity(e) == <<e.ref, e.type, e.relpath>>

\* The dedup keeping the last record of each identity instead of the first
Dedup_KeepLast(es) ==
  LET keep == {i \in 1..Len(es) : \A j \in (i + 1)..Len(es) : Identity(es[j]) # Identity(es[i])}
      nth(k) == CHOOSE i \in keep : Cardinality({j \in keep : j < i}) = k - 1
  IN [k \in 1..Cardinality(keep) |-> es[nth(k)]]

\* lines 540-547: the first record of each (ref, type, relpath), in list order
Dedup(es) ==
  LET keep == {i \in 1..Len(es) : \A j \in 1..(i - 1) : Identity(es[j]) # Identity(es[i])}
      nth(k) == CHOOSE i \in keep : Cardinality({j \in keep : j < i}) = k - 1
  IN [k \in 1..Cardinality(keep) |-> es[nth(k)]]

\* list.sort left out: the list stays in the order of the dedup
SortByRef_None(es) == es

RECURSIVE SortByRef(_)
\* line 549: list.sort(key = ref) is stable; insertion from the right end
\* puts a record after the records with a ref that is not greater
SortByRef(es) ==
  IF es = <<>> THEN <<>>
  ELSE LET front == SortByRef(SubSeq(es, 1, Len(es) - 1))
           x == es[Len(es)]
           before == {i \in 1..Len(front) : ~StrLess(x.ref, front[i].ref)}
           k == IF before = {} THEN 0 ELSE Max(before)
       IN SubSeq(front, 1, k) \o <<x>> \o SubSeq(front, k + 1, Len(front))

(***************************************************************************)
(* Calls of the pure functions: the arguments are drawn in the initial     *)
(* state, the one action applies the function.                             *)
(***************************************************************************)
NoRet == [t |-> "pending", v |-> ""]

Idle ==
  /\ files = {}
  /\ json_files = <<>>
  /\ xml_manifests = <<>>
  /\ mc_files = <<>>
  /\ entries = <<>>
  /\ result = <<>>
  /\ pc = "call"

IdleUnchanged == UNCHANGED <<files, json_files, xml_manifests, mc_files, entries, result, call>>

\* File names given to classify_type
NamePrefixes == {"pol", "cfg", "cmp", "scr", "cat", "app", "xyz", "Pol", "po1"}
NameSeparators == {"-", "_"}
NameMiddles == {"abc", "aBc"}
NameNumbers == {"001", "01x", "7"}
NameExtensions == {".json", ".mobileconfig", "-x.sh"}

ClassifyNames ==
  {p \o s \o m \o "-" \o n \o e :
     p \in NamePrefixes, s \in NameSeparators, m \in NameMiddles,
     n \in NameNumbers, e \in NameExtensions}
  \cup {p \o e : p \in NamePrefixes, e \in NameExtensions}
  \cup {"settings.json", "profile.mobileconfig", "install.sh", "pol-abc-001"}

InitClassify ==
  /\ Idle
  /\ call \in {[fn |-> "classify_type", name |-> n] : n \in ClassifyNames}
  /\ ret = NoRet

CallClassify ==
  /\ pc = "call"
  /\ call.fn = "classify_type"
  /\ ret' = PyStr(classify_type(call.name))
  /\ pc' = "returned"
  /\ IdleUnchanged

NextClassify == CallClassify

SpecClassify == InitClassify /\ [][NextClassify]_vars

\* Keys, suffixes and raw values given to simplify_display_value
DisplayKeys == {"k", "x", "a.b", "com.acme.x", "", "1", "{{t}}.x", Rep("k", MaxValueLen - 4)}

LongSuffixes == {Rep("x", n) : n \in {MaxValueLen - 3, MaxValueLen - 2, MaxValueLen - 1, MaxValueLen + 10}}

DisplaySuffixes ==
  {"0", "1", "on", "", "_1", "true", "True", "TRUE", "false", "FALSE", "x_true", "b_false", "a.b_true",
   "true_x", "{{mail}}", "a{{}}b", "{{x}", "}}{{", "{{mail}}_true", "{{a\nb}}", "a._true", "zzz_true",
   "{{mail}}" \o Rep("x", MaxValueLen), Rep("x", MaxValueLen) \o "{{mail}}"} \cup LongSuffixes

DisplayNumbers == {0, 1, 12, -3}

RawValues(key) ==
  {PyStr(key \o "_" \o s) : s \in DisplaySuffixes}
  \cup {PyStr(s) : s \in DisplaySuffixes}
  \cup {PyInt(n) : n \in DisplayNumbers}

InitDisplay ==
  /\ Idle
  /\ call \in {[fn |-> "simplify_display_value", key |-> k, raw_val |-> v] :
                 k \in DisplayKeys, v \in UNION {RawValues(kk) : kk \in DisplayKeys}}
  /\ ret = NoRet

CallDisplay ==
  /\ pc = "call"
  /\ call.fn = "simplify_display_value"
  /\ ret' = PyStr(simplify_display_value(call.key, call.raw_val))
  /\ pc' = "returned"
  /\ IdleUnchanged

NextDisplay == CallDisplay

SpecDisplay == InitDisplay /\ [][NextDisplay]_vars

\* Values given to simplify_value: strings of every length up to MaxOverLen
\* characters past the limit, and values of the other types
MaxOverLen == 10

ValuePatterns == {"x", "0123456789", "a.b_"}

ValueStrings ==
  {Take(Rep(p, MaxValueLen + MaxOverLen), n) : p \in ValuePatterns, n \in 0..(MaxValueLen + MaxOverLen)}

Values ==
  {PyStr(v) : v \in ValueStrings}
  \cup {PyNone, PyInt(0), PyInt(12), PyInt(-3), PyBool(TRUE), PyBool(FALSE),
        PyList(<<PyInt(1), PyStr("a")>>), PyDict(<< <<"a", PyNone>> >>)}

InitValue ==
  /\ Idle
  /\ call \in {[fn |-> "simplify_value", val |-> v] : v \in Values}
  /\ ret = NoRet

CallValue ==
  /\ pc = "call"
  /\ call.fn = "simplify_value"
  /\ ret' = PyStr(simplify_value(call.val))
  /\ pc' = "returned"
  /\ IdleUnchanged

NextValue == CallValue

SpecValue == InitValue /\ [][NextValue]_vars

\* Documents given to extract_settings_catalog.  A field of a node is absent
\* or holds one of the values of S.
Field(k, S) == {<<>>} \cup {<< <<k, v>> >> : v \in S}

Valued(v) == PyDict(<< <<"value", v>> >>)

Identifiers == {PyStr("a.b"), PyStr(""), PyInt(7)}

ChoiceCarriers == {Valued(PyStr("a.b_1")), Valued(PyNone), PyDict(<<>>), PyStr("a.b_1")}

SimpleCarriers == {Valued(PyInt(12))}

CollectionCarriers ==
  {PyList(<<>>),
   PyList(<<Valued(PyInt(1)), Valued(PyInt(2))>>),
   PyList(<<Valued(PyNone), Valued(PyStr("a.b_x")), PyInt(5)>>),
   Valued(PyInt(1))}

SettingNodes ==
  {PyDict(i \o c \o v \o l) :
     i \in Field("settingDefinitionId", Identifiers),
     c \in Field("choiceSettingValue", ChoiceCarriers),
     v \in Field("simpleSettingValue", SimpleCarriers),
     l \in Field("simpleSettingCollectionValue", CollectionCarriers)}

\* Nodes nested in another node
InnerNodes ==
  {PyDict(<< <<"settingDefinitionId", PyStr("c.d")>>, <<"simpleSettingValue", Valued(PyStr("c.d_on"))>> >>),
   PyDict(<< <<"settingDefinitionId", PyStr("c.d")>>,
             <<"simpleSettingCollectionValue", PyList(<<Valued(PyStr("c.d_x")), Valued(PyBool(TRUE))>>)>> >>),
   PyDict(<< <<"x", PyInt(1)>> >>)}

\* A node holding inner: inside its choice container, in a group collection
\* with no identifier, and in a field that comes before its carrier
OuterNodes(inner) ==
  {PyDict(<< <<"settingDefinitionId", PyStr("a.b")>>,
             <<"choiceSettingValue", PyDict(<< <<"value", PyStr("a.b_1")>>, <<"children", PyList(<<inner>>)>> >>)>> >>),
   PyDict(<< <<"groupSettingCollectionValue",
               PyList(<<PyDict(<< <<"children",
                                    PyList(<<inner,
                                             PyDict(<< <<"settingDefinitionId", PyStr("g.h")>>,
                                                       <<"choiceSettingValue", Valued(PyStr("g.h_false"))>> >>)>>)>> >>)>>)>> >>),
   PyDict(<< <<"children", PyList(<<inner>>)>>,
             <<"settingDefinitionId", PyStr("a.b")>>,
             <<"simpleSettingValue", Valued(PyInt(3))>> >>)}

\* What follows the outer node in the settings list
Siblings ==
  {PyDict(<< <<"settingDefinitionId", PyStr("e")>>, <<"simpleSettingValue", Valued(PyInt(0))>> >>),
   PyList(<<PyDict(<< <<"settingDefinitionId", PyStr("e")>>, <<"choiceSettingValue", Valued(PyStr("e_true"))>> >>)>>),
   PyInt(5)}

Settings(xs) == PyDict(<< <<"name", PyStr("n")>>, <<"settings", xs>> >>)

\* {"settings": [{"settingDefinitionId": "com.acme.list",
\*   "simpleSettingCollectionValue": [{"value": 1}, {"value": 2}]}]}
Doc_Collection ==
  Settings(PyList(<<PyDict(<< <<"settingDefinitionId", PyStr("com.acme.list")>>,
                             <<"simpleSettingCollectionValue",
                               PyList(<<Valued(PyInt(1)), Valued(PyInt(2))>>)>> >>)>>))

CatalogDocs ==
  {Settings(PyList(<<PyDict(<< <<"settingInstance", n>> >>)>>)) : n \in SettingNodes}
  \cup {Settings(PyList(<<o, x>>)) : o \in UNION {OuterNodes(n) : n \in InnerNodes}, x \in Siblings}
  \cup {Settings(n) : n \in InnerNodes}
  \cup {Settings(PyInt(5)), PyDict(<< <<"name", PyStr("n")>> >>), Doc_Collection}

Result(r) == [t |-> "result", v |-> r]

InitCatalog ==
  /\ Idle
  /\ call \in {[fn |-> "extract_settings_catalog", json_doc |-> d] : d \in CatalogDocs}
  /\ ret = NoRet

CallCatalog ==
  /\ pc = "call"
  /\ call.fn = "extract_settings_catalog"
  /\ ret' = Result(extract_settings_catalog(call.json_doc))
  /\ pc' = IF extract_settings_catalog(call.json_doc).raised THEN "raised" ELSE "returned"
  /\ IdleUnchanged

NextCatalog == CallCatalog

SpecCatalog == InitCatalog /\ [][NextCatalog]_vars

\* Property lists given to extract_mobileconfig: one payload whose fields are
\* absent or present, and lists of several items
PayloadDicts ==
  {PyDict(t \o u \o a \o b \o c \o d) :
     t \in Field("PayloadType", {PyStr("com.apple.wifi.managed")}),
     u \in Field("PayloadUUID", {PyStr("1B2C")}),
     a \in Field("SSID_STR", {PyStr("corp")}),
     b \in Field("AutoJoin", {PyBool(TRUE), PyInt(3)}),
     c \in Field("Certificate", {PyBytes("AAEC")}),
     d \in Field("Proxy", {PyList(<<PyStr("a"), PyStr("b")>>),
                           PyDict(<< <<"Host", PyStr("h")>>, <<"PayloadType", PyStr("inner")>> >>)})}

Plist(content) == PyDict(<< <<"PayloadDisplayName", PyStr("Wi-Fi")>>, <<"PayloadContent", content>> >>)

PlistDocs ==
  {Plist(PyList(<<pl>>)) : pl \in PayloadDicts}
  \cup {Plist(PyList(<<PyStr("x"),
                       PyDict(<< <<"PayloadType", PyStr("com.apple.dock")>>, <<"tilesize", PyInt(48)>> >>),
                       PyDict(<< <<"Port", PyInt(8080)>> >>)>>)),
        Plist(PyList(<<>>)), Plist(PyDict(<< <<"a", PyInt(1)>> >>)), Plist(PyStr("x")), Plist(PyInt(5)),
        PyDict(<<>>)}

InitMobileconfig ==
  /\ Idle
  /\ call \in {[fn |-> "extract_mobileconfig", plist_doc |-> d] : d \in PlistDocs}
  /\ ret = NoRet

CallMobileconfig ==
  /\ pc = "call"
  /\ call.fn = "extract_mobileconfig"
  /\ ret' = Result(extract_mobileconfig(call.plist_doc))
  /\ pc' = IF extract_mobileconfig(call.plist_doc).raised THEN "raised" ELSE "returned"
  /\ IdleUnchanged

NextMobileconfig == CallMobileconfig

SpecMobileconfig == InitMobileconfig /\ [][NextMobileconfig]_vars

\* Compliance policies given to extract_compliance_policy
Action(type, grace) == PyDict(<< <<"actionType", PyStr(type)>>, <<"gracePeriodHours", PyInt(grace)>> >>)

Rule(name, configs) ==
  PyDict(<< <<"ruleName", PyStr(name)>>, <<"scheduledActionConfigurations", configs>> >>)

RuleVariants(name) ==
  {Rule(name, PyList(<<Action("block", 24), Action("notification", 0)>>)),
   Rule(name, PyList(<<PyDict(<<>>), PyStr("x"), Action("retire", 72)>>)),
   Rule(name, PyList(<<>>)),
   Rule(name, PyInt(3)),
   PyDict(<< <<"scheduledActionConfigurations", PyList(<<Action("block", 24)>>)>> >>),
   PyDict(<< <<"ruleName", PyStr(name)>> >>),
   PyStr(name)}

RuleLists ==
  {PyList(<<>>)}
  \cup {PyList(<<r>>) : r \in RuleVariants("first")}
  \cup {PyList(<<r, q>>) : r \in RuleVariants("first"), q \in RuleVariants("second")}

ComplianceDocs ==
  {PyDict(<< <<"@odata.type", PyStr("#microsoft.graph.macOSCompliancePolicy")>>, <<"displayName", PyStr("n")>> >>
          \o f \o << <<"scheduledActionsForRule", rules>> >> \o g) :
     f \in Field("passwordRequired", {PyBool(TRUE)}),
     g \in Field("osMinimumVersion", {PyStr("14.0")}),
     rules \in RuleLists}
  \cup {PyDict(<< <<"scheduledActionsForRule", PyDict(<< <<"ruleName", PyStr("first")>> >>)>>, <<"id", PyStr("1")>> >>),
        PyDict(<<>>)}

InitCompliance ==
  /\ Idle
  /\ call \in {[fn |-> "extract_compliance_policy", json_doc |-> d] : d \in ComplianceDocs}
  /\ ret = NoRet

CallCompliance ==
  /\ pc = "call"
  /\ call.fn = "extract_compliance_policy"
  /\ ret' = Result(extract_compliance_policy(call.json_doc))
  /\ pc' = IF extract_compliance_policy(call.json_doc).raised THEN "raised" ELSE "returned"
  /\ IdleUnchanged

NextCompliance == CallCompliance

SpecCompliance == InitCompliance /\ [][NextCompliance]_vars

(***************************************************************************)
(* build_entries as a function of the tree and of the order in which       *)
(* rglob lists the manifests: the loop bodies above, folded.               *)
(***************************************************************************)
RECURSIVE JsonLoop(_, _, _)
JsonLoop(fs, es, tree) ==
  IF fs = <<>> THEN Ok(es)
  ELSE IF JsonStep(Head(fs), es, tree).raised THEN Raised
  ELSE JsonLoop(Tail(fs), JsonStep(Head(fs), es, tree).out, tree)

RECURSIVE ManifestLoop(_, _, _)
ManifestLoop(ms, es, tree) ==
  IF ms = <<>> THEN es ELSE ManifestLoop(Tail(ms), ManifestStep(Head(ms), es, tree), tree)

RECURSIVE McLoop(_, _, _)
McLoop(fs, es, tree) ==
  IF fs = <<>> THEN Ok(es)
  ELSE IF McStep(Head(fs), es, tree).raised THEN Raised
  ELSE McLoop(Tail(fs), McStep(Head(fs), es, tree).out, tree)

build_entries(tree, xml_order) ==
  LET after_json == JsonLoop(gather_files(JSON_GLOB, tree), <<>>, tree)
      after_xml == ManifestLoop(xml_order, after_json.out, tree)
      after_mc == McLoop(gather_files(MOBILECONFIG_GLOB, tree), after_xml, tree)
  IN IF after_json.raised \/ after_mc.raised THEN Raised
     ELSE Ok(SortByRef(Dedup(after_mc.out)))

(***************************************************************************)
(* The trees build_entries is run on: at most MaxFiles files, no two at    *)
(* the same path, taken from the candidates below.                         *)
(***************************************************************************)
MaxFiles == 3

NoElems == <<>>

JsonFile(dir, name, doc) ==
  [dir |-> dir, name |-> name, parsed |-> TRUE, doc |-> doc, root |-> "", elems |-> NoElems]

\* a .json or .mobileconfig file the parser rejects, or any other file
Unparsed(dir, name) ==
  [dir |-> dir, name |-> name, parsed |-> FALSE, doc |-> PyNone, root |-> "", elems |-> NoElems]

XmlFile(dir, name, root, elems) ==
  [dir |-> dir, name |-> name, parsed |-> TRUE, doc |-> PyNone, root |-> root, elems |-> elems]

El(tag, text) == [tag |-> tag, text |-> PyStr(text), children |-> NoElems]
EmptyEl(tag) == [tag |-> tag, text |-> PyNone, children |-> NoElems]
Subtree(tag, children) == [tag |-> tag, text |-> PyStr("\n  "), children |-> children]

\* {"name": "FileVault", "settings": [{"settingInstance": {"settingDefinitionId":
\* "com.apple.mcx.filevault2_enable", "choiceSettingValue": {"value":
\* "com.apple.mcx.filevault2_enable_0", "children": []}}}]}
Doc_Catalog ==
  PyDict(<<<<"name", PyStr("FileVault")>>, <<"settings", PyList(<<PyDict(<<<<"settingInstance",
  PyDict(<<<<"settingDefinitionId", PyStr("com.apple.mcx.filevault2_enable")>>,
  <<"choiceSettingValue", PyDict(<<<<"value", PyStr("com.apple.mcx.filevault2_enable_0")>>,
  <<"children", PyList(<<>>)>>>>)>>>>)>>>>)>>)>>>>)

\* {"@odata.type": "#microsoft.graph.macOSCompliancePolicy", "passwordRequired": true,
\* "settings": [{"settingDefinitionId": "a.b", "simpleSettingValue": {"value": "a.b_true"}}]}
Doc_CatalogCompliance ==
  PyDict(<<<<"@odata.type", PyStr("#microsoft.graph.macOSCompliancePolicy")>>,
  <<"passwordRequired", PyBool(TRUE)>>, <<"settings", PyList(<<PyDict(<<<<"settingDefinitionId",
  PyStr("a.b")>>, <<"simpleSettingValue", PyDict(<<<<"value", PyStr("a.b_true")>>>>)>>>>)>>)>>>>)

\* {"@odata.type": "#microsoft.graph.macOSCompliancePolicy", "displayName": "Compliance",
\* "passwordRequired": true, "scheduledActionsForRule": [{"ruleName": "PasswordRequired",
\* "scheduledActionConfigurations": [{"actionType": "block", "gracePeriodHours": 24}]}]}
Doc_Compliance ==
  PyDict(<<<<"@odata.type", PyStr("#microsoft.graph.macOSCompliancePolicy")>>, <<"displayName",
  PyStr("Compliance")>>, <<"passwordRequired", PyBool(TRUE)>>, <<"scheduledActionsForRule",
  PyList(<<PyDict(<<<<"ruleName", PyStr("PasswordRequired")>>, <<"scheduledActionConfigurations",
  PyList(<<PyDict(<<<<"actionType", PyStr("block")>>, <<"gracePeriodHours",
  PyInt(24)>>>>)>>)>>>>)>>)>>>>)

\* {"@odata.type": "#microsoft.graph.macOSCompliancePolicy", "displayName": "Compliance"}
Doc_ComplianceEmpty ==
  PyDict(<<<<"@odata.type", PyStr("#microsoft.graph.macOSCompliancePolicy")>>, <<"displayName",
  PyStr("Compliance")>>>>)

\* {"@odata.type": "#microsoft.graph.deviceEnrollmentPlatformRestriction",
\* "platformRestriction": {"platformBlocked": false, "osMinimumVersion": null}}
Doc_Enrollment ==
  PyDict(<<<<"@odata.type", PyStr("#microsoft.graph.deviceEnrollmentPlatformRestriction")>>,
  <<"platformRestriction", PyDict(<<<<"platformBlocked", PyBool(FALSE)>>, <<"osMinimumVersion",
  PyNone>>>>)>>>>)

\* {"@odata.type": "#microsoft.graph.CompliancePolicy.deviceEnrollmentPlatformRestriction",
\* "platformRestriction": {"platformBlocked": false}}
Doc_Both ==
  PyDict(<<<<"@odata.type",
  PyStr("#microsoft.graph.CompliancePolicy.deviceEnrollmentPlatformRestriction")>>,
  <<"platformRestriction", PyDict(<<<<"platformBlocked", PyBool(FALSE)>>>>)>>>>)

\* {"name": "Notes", "description": "no settings"}
Doc_Plain ==
  PyDict(<<<<"name", PyStr("Notes")>>, <<"description", PyStr("no settings")>>>>)

\* {}
Doc_Empty ==
  PyDict(<<>>)

\* [{"settings": []}]
Doc_List ==
  PyList(<<PyDict(<<<<"settings", PyList(<<>>)>>>>)>>)

\* {"@odata.type": 5, "name": "x"}
Doc_TypeNotStr ==
  PyDict(<<<<"@odata.type", PyInt(5)>>, <<"name", PyStr("x")>>>>)

\* {"settings": [{"settingDefinitionId": 7, "choiceSettingValue": {"value": "x_1"}}]}
Doc_IdNotStr ==
  PyDict(<<<<"settings", PyList(<<PyDict(<<<<"settingDefinitionId", PyInt(7)>>,
  <<"choiceSettingValue", PyDict(<<<<"value", PyStr("x_1")>>>>)>>>>)>>)>>>>)

\* {"settings": [{"settingDefinitionId": "a.b", "choiceSettingValue": "a.b_1",
\* "simpleSettingCollectionValue": {"value": 1}}]}
Doc_BadCarrier ==
  PyDict(<<<<"settings", PyList(<<PyDict(<<<<"settingDefinitionId", PyStr("a.b")>>,
  <<"choiceSettingValue", PyStr("a.b_1")>>, <<"simpleSettingCollectionValue", PyDict(<<<<"value",
  PyInt(1)>>>>)>>>>)>>)>>>>)

\* {"PayloadDisplayName": "Wi-Fi", "PayloadContent": [{"PayloadType":
\* "com.apple.wifi.managed", "PayloadUUID": "u1", "SSID_STR": "corp", "AutoJoin": true,
\* "EAPClientConfiguration": {"AcceptEAPTypes": [25]}}]}
Plist_Profile ==
  PyDict(<<<<"PayloadDisplayName", PyStr("Wi-Fi")>>, <<"PayloadContent",
  PyList(<<PyDict(<<<<"PayloadType", PyStr("com.apple.wifi.managed")>>, <<"PayloadUUID",
  PyStr("u1")>>, <<"SSID_STR", PyStr("corp")>>, <<"AutoJoin", PyBool(TRUE)>>,
  <<"EAPClientConfiguration", PyDict(<<<<"AcceptEAPTypes", PyList(<<PyInt(25)>>)>>>>)>>>>)>>)>>>>)

\* {}
Plist_Empty ==
  PyDict(<<>>)

\* ["x"]
Plist_Array ==
  PyList(<<PyStr("x")>>)

JsonDocs ==
  {Doc_Catalog, Doc_CatalogCompliance, Doc_Compliance, Doc_ComplianceEmpty, Doc_Enrollment,
   Doc_Both, Doc_Plain, Doc_Empty, Doc_List, Doc_TypeNotStr, Doc_IdNotStr, Doc_BadCarrier}

Intune == <<"configurations", "intune">>

JsonCandidates ==
  {JsonFile(Intune, "pol-abc-001.json", d) : d \in JsonDocs}
  \cup {Unparsed(Intune, "pol-abc-001.json")}
  \cup {JsonFile(<<"mde">>, "pol-abc-001.json", d) : d \in {Doc_Catalog, Doc_Plain}}
  \cup {Unparsed(<<"mde">>, "pol-abc-001.json")}

McCandidates ==
  {JsonFile(Intune, "cfg-abc-003.mobileconfig", d) : d \in {Plist_Profile, Plist_Empty, Plist_Array}}
  \cup {Unparsed(Intune, "cfg-abc-003.mobileconfig")}
  \cup {JsonFile(<<"mde">>, "cfg-abc-003.mobileconfig", Plist_Profile)}

ScriptSubtree ==
  Subtree("Script", <<El("RunAsAccount", "system"), EmptyEl("Frequency"), El("RetryCount", " 3 ")>>)

Manifest(dir, name, type, source, title, more) ==
  XmlFile(dir, name, "MacIntuneManifest",
          <<El("Name", title), El("Type", type), El("SourceFile", source), El("ReferenceId", Stem(name))>> \o more)

XmlCandidates ==
  { \* sidecars of the JSON file: the type it has anyway, and a type override
    Manifest(Intune, "pol-abc-001.xml", "Policy", "configurations/intune/pol-abc-001.json", "FileVault", <<>>),
    Manifest(Intune, "pol-abc-001.xml", "Script", "configurations/intune/pol-abc-001.json", "FileVault", <<>>),
    \* sidecars of the profile bundle
    Manifest(Intune, "cfg-abc-003.xml", "CustomConfig", "configurations/intune/cfg-abc-003.mobileconfig", "Wi-Fi", <<>>),
    Manifest(Intune, "cfg-abc-003.xml", "Policy", "configurations/intune/cfg-abc-003.mobileconfig", "Wi-Fi", <<>>),
    \* manifests of a script
    Manifest(<<"scripts">>, "scr-abc-004.xml", "Script", "scripts/scr-abc-004.sh", "Install", <<ScriptSubtree>>),
    Manifest(<<"scripts">>, "scr-abc-004.xml", " Package\n", "scripts/scr-abc-004.pkg", "Install", <<ScriptSubtree>>),
    Manifest(<<"scripts">>, "scr-abc-004.xml", "Policy", "scripts/scr-abc-004.sh", "Install", <<ScriptSubtree>>),
    XmlFile(<<"scripts">>, "scr-abc-004.xml", "MacIntuneManifest",
            <<El("Name", "Install"), EmptyEl("Type"), El("SourceFile", "scripts/scr-abc-004.sh")>>),
    XmlFile(<<"scripts">>, "scr-abc-004.xml", "MacIntuneManifest", <<El("Type", "Script")>>),
    XmlFile(<<"scripts">>, "scr-abc-004.xml", "project", <<El("Type", "Script"), El("SourceFile", "a.sh")>>),
    Unparsed(<<"scripts">>, "scr-abc-004.xml"),
    \* a second manifest of the same script, and a manifest with the same stem
    Manifest(<<"archive">>, "scr-abc-004.xml", "Script", "scripts/scr-abc-004.sh", "Install (old)", <<>>),
    Manifest(<<"attributes">>, "scr-abc-004.xml", "CustomAttribute", "attributes/scr-abc-004.zsh", "Attribute", <<>>) }

OtherCandidates == {Unparsed(<<"scripts">>, "scr-abc-004.sh")}

Candidates == JsonCandidates \cup McCandidates \cup XmlCandidates \cup OtherCandidates

RECURSIVE TreesUpTo(_)
\* the sets of at most n candidates with distinct paths
TreesUpTo(n) ==
  IF n = 0 THEN {{}}
  ELSE LET smaller == TreesUpTo(n - 1)
       IN smaller \cup UNION {{t \cup {f} : f \in {c \in Candidates : \A g \in t : RelPath(g) # RelPath(c)}} :
                                t \in smaller}

RECURSIVE Orders(_)
\* every order of a set, as sequences
Orders(S) ==
  IF S = {} THEN {<<>>}
  ELSE UNION {{<<x>> \o rest : rest \in Orders(S \ {x})} : x \in S}

Init ==
  /\ files \in {t \in TreesUpTo(MaxFiles) : t # {}}
  /\ json_files = gather_files(JSON_GLOB, files)
  /\ mc_files = gather_files(MOBILECONFIG_GLOB, files)
  /\ xml_manifests \in Orders(XmlFiles(files))
  /\ entries = <<>>
  /\ result = <<>>
  /\ pc = "build_entries"
  /\ call = [fn |-> "build_entries"]
  /\ ret = NoRet

\* An iteration of the loop over json_files (lines 423-460): the list holds
\* the files still to read; an exception leaves build_entries.
ReadJson ==
  /\ pc = "build_entries"
  /\ json_files # <<>>
  /\ LET step == JsonStep(Head(json_files), entries, files)
     IN IF step.raised
        THEN pc' = "aborted" /\ UNCHANGED <<json_files, entries>>
        ELSE pc' = pc /\ json_files' = Tail(json_files) /\ entries' = step.out
  /\ UNCHANGED <<files, xml_manifests, mc_files, result, call, ret>>

\* An iteration of the loop over xml_manifests (lines 465-518)
ReadManifest ==
  /\ pc = "build_entries"
  /\ json_files = <<>>
  /\ xml_manifests # <<>>
  /\ entries' = ManifestStep(Head(xml_manifests), entries, files)
  /\ xml_manifests' = Tail(xml_manifests)
  /\ UNCHANGED <<files, json_files, mc_files, result, pc, call, ret>>

\* An iteration of the loop over mc_files (lines 519-538)
ReadMobileconfig ==
  /\ pc = "build_entries"
  /\ json_files = <<>>
  /\ xml_manifests = <<>>
  /\ mc_files # <<>>
  /\ LET step == McStep(Head(mc_files), entries, files)
     IN IF step.raised
        THEN pc' = "aborted" /\ UNCHANGED <<mc_files, entries>>
        ELSE pc' = pc /\ mc_files' = Tail(mc_files) /\ entries' = step.out
  /\ UNCHANGED <<files, json_files, xml_manifests, result, call, ret>>

\* Lines 540-550: deduplicate, sort, return
Merge ==
  /\ pc = "build_entries"
  /\ json_files = <<>>
  /\ xml_manifests = <<>>
  /\ mc_files = <<>>
  /\ result' = SortByRef(Dedup(entries))
  /\ pc' = "done"
  /\ UNCHANGED <<files, json_files, xml_manifests, mc_files, entries, call, ret>>

Next == ReadJson \/ ReadManifest \/ ReadMobileconfig \/ Merge

Spec == Init /\ [][Next]_vars

(***************************************************************************)
(* Claims about build_entries                                              *)
(***************************************************************************)
Done == pc = "done"

FileAt(relpath) == CHOOSE f \in files : RelPath(f) = relpath

\* The files the two primary loops read
Gathered ==
  {f \in files : \E i \in 1..Len(JSON_GLOB) : GlobMatches(JSON_GLOB[i], f)}
  \cup {f \in files : \E i \in 1..Len(MOBILECONFIG_GLOB) : GlobMatches(MOBILECONFIG_GLOB[i], f)}

FirstWith(id) == Min({k \in 1..Len(entries) : Identity(entries[k]) = id})

\* C1: once build_entries has returned, no two records of the returned list
\* share a (ref, type, relpath) triple, every triple of the working list is in
\* the returned list, and its record there is the one appended first with
\* that triple.
C1_UniqueFirstSeen ==
  Done =>
    /\ \A i, j \in 1..Len(result) : i # j => Identity(result[i]) # Identity(result[j])
    /\ \A k \in 1..Len(entries) : \E i \in 1..Len(result) : Identity(result[i]) = Identity(entries[k])
    /\ \A i \in 1..Len(result) :
         /\ \E k \in 1..Len(entries) : Identity(entries[k]) = Identity(result[i])
         /\ result[i] = entries[FirstWith(Identity(result[i]))]

\* Two different records with one identity were appended, and the returned
\* list holds the first of them.
C1_Witness ==
  /\ Done
  /\ \E k, l \in 1..Len(entries) :
       /\ k < l
       /\ Identity(entries[k]) = Identity(entries[l])
       /\ entries[k] # entries[l]
       /\ k = FirstWith(Identity(entries[k]))
       /\ \E i \in 1..Len(result) : result[i] = entries[k]

\* C2: for every JSON file and every profile bundle that parses (here: to a
\* value the loop builds a record from), a record of the returned list for
\* that file is never one produced from a manifest.
C2_PrimaryRecordSurvives ==
  Done =>
    \A f \in Gathered :
      (f.parsed /\ Truthy(f.doc)) =>
        \A i \in 1..Len(result) : result[i].relpath = RelPath(f) => result[i].origin # "manifest"

\* C3: the returned list is the same for every order in which the manifests
\* are processed.
C3_OrderIndependent ==
  Done => \A order \in Orders(XmlFiles(files)) : build_entries(files, order) = Ok(result)

\* C4: the returned list is sorted ascending by ref: no record has a ref that
\* is less, in string order, than the ref of the record before it.
C4_SortedByRef ==
  Done => \A i \in 1..(Len(result) - 1) : ~StrLess(result[i + 1].ref, result[i].ref)

\* The working list was not in ref order, and the list was returned.
C4_Witness ==
  /\ Done
  /\ Len(result) >= 2
  /\ \E i \in 1..(Len(entries) - 1) : StrLess(entries[i + 1].ref, entries[i].ref)

\* The file whose loop iteration raised
Culprit == IF json_files # <<>> THEN Head(json_files) ELSE Head(mc_files)

C5_MalformedSkipped ==
  /\ \A i \in 1..Len(entries) : entries[i].origin # "manifest" => FileAt(entries[i].relpath).parsed
  /\ pc = "aborted" => Culprit.parsed

C6_NeverAborts == pc # "aborted"

\* C7: every record produced from a manifest alone has one of the types
\* Script, Package, CustomAttribute.
C7_ManifestOnlyKinds ==
  \A i \in 1..Len(entries) :
    entries[i].origin = "manifest" => entries[i].type \in {"Script", "Package", "CustomAttribute"}

C8_Discriminator(doc) == DictGet(doc, "@odata.type", PyStr(""))

C8_IsCompliance(doc) ==
  C8_Discriminator(doc).t = "str" /\ Contains(C8_Discriminator(doc).v, "CompliancePolicy")

C8_IsEnrollment(doc) ==
  /\ C8_Discriminator(doc).t = "str"
  /\ EndsWith(C8_Discriminator(doc).v, "deviceEnrollmentPlatformRestriction")

\* C8: the settings of a record built from a JSON document are the catalog
\* extraction when that is non-empty; else the compliance extraction when the
\* discriminator names a compliance policy and that extraction is non-empty;
\* else the flat platformRestriction fields when the discriminator names an
\* enrollment platform restriction; else none.
C8_PriorityChain ==
  \A i \in 1..Len(entries) :
    entries[i].origin = "json" =>
      LET doc == FileAt(entries[i].relpath).doc
          catalog == extract_settings_catalog(doc).out
          compliance == extract_compliance_policy(doc).out
      IN /\ entries[i].count = Len(entries[i].settings)
         /\ entries[i].settings =
              IF catalog # <<>> THEN catalog
              ELSE IF C8_IsCompliance(doc) /\ compliance # <<>> THEN compliance
              ELSE IF C8_IsEnrollment(doc) THEN PlatformRestrictionPairs(doc)
              ELSE <<>>

\* A record was built from a document with a compliance discriminator and a
\* non-empty catalog extraction, and one from a document with both
\* discriminators.
C8_Witness ==
  /\ \E i \in 1..Len(entries) :
       /\ entries[i].origin = "json"
       /\ FileAt(entries[i].relpath).doc = Doc_CatalogCompliance
       /\ entries[i].settings = << <<"a.b", "True">> >>
  /\ \E i \in 1..Len(entries) :
       /\ entries[i].origin = "json"
       /\ FileAt(entries[i].relpath).doc = Doc_Plain
       /\ entries[i].settings = <<>>

(***************************************************************************)
(* Claims about classify_type and simplify_display_value                   *)
(***************************************************************************)
Returned(fn) == pc = "returned" /\ call.fn = fn

C9_Expected(prefix) ==
  CASE prefix = "pol" -> "Policy"
    [] prefix = "cfg" -> "CustomConfig"
    [] prefix = "cmp" -> "Compliance"
    [] prefix = "scr" -> "Script"
    [] prefix = "cat" -> "CustomAttribute"
    [] prefix = "app" -> "Package"
    [] OTHER -> "Unknown"

C9_Known == {"pol", "cfg", "cmp", "scr", "cat", "app"}

\* C9 as stated: classify_type returns the mapped classification for a name
\* with one of the six known three-letter prefixes; for any other name it
\* returns "Unknown", except "CustomConfig" for a .mobileconfig name.
C9_AsStated ==
  Returned("classify_type") =>
    LET name == call.name
    IN IF Take(name, 3) \in C9_Known THEN ret.v = C9_Expected(Take(name, 3))
       ELSE IF EndsWith(name, ".mobileconfig") THEN ret.v = "CustomConfig"
       ELSE ret.v = "Unknown"

\* C9 amended: for a name that starts with the ref-ID pattern (three lowercase
\* letters, "-", three lowercase letters, "-", three digits) classify_type
\* returns the mapped classification of a known prefix and "Unknown" for any
\* other prefix, whatever the extension; for a name that does not start with
\* that pattern it returns "CustomConfig" when the name ends in .mobileconfig
\* and "Policy" otherwise, whatever its first three letters.
C9_Amended ==
  Returned("classify_type") =>
    LET name == call.name
        dashed == /\ Len(name) >= 11
                  /\ Char(name, 4) = "-" /\ Char(name, 8) = "-"
                  /\ \A i \in {1, 2, 3, 5, 6, 7} : Char(name, i) \in {Char(AsciiHigh, j) : j \in 1..26}
                  /\ \A i \in {9, 10, 11} : Char(name, i) \in {"0", "1", "2", "3", "4", "5", "6", "7", "8", "9"}
    IN IF dashed THEN ret.v = C9_Expected(Take(name, 3))
       ELSE IF EndsWith(name, ".mobileconfig") THEN ret.v = "CustomConfig"
       ELSE ret.v = "Policy"

\* classify_type has answered "Unknown" for a .mobileconfig name with an unknown
\* prefix, and "Policy" for a name outside the ref-ID pattern.
C9_Witness ==
  /\ Returned("classify_type")
  /\ \/ /\ call.name = "xyz-abc-001.mobileconfig"
        /\ ret.v = "Unknown"
     \/ /\ call.name = "scr-abc-7.json"
        /\ ret.v = "Policy"

\* The value ends, case-insensitively, in one of the boolean-suffix tokens.
C10_EndsInBooleanToken(val) == EndsWith(Lower(val), "_true") \/ EndsWith(Lower(val), "_false")

\* C10 as stated: for every key and every suffix that does not match the
\* boolean-suffix rule, simplify_display_value(key, key + "_" + suffix) is suffix.
C10_AsStated ==
  Returned("simplify_display_value") =>
    \A s \in DisplaySuffixes :
      (call.raw_val = PyStr(call.key \o "_" \o s) /\ ~C10_EndsInBooleanToken(call.key \o "_" \o s))
        => ret.v = s

\* C10 amended: for every key and every suffix such that key + "_" + suffix is at
\* most 120 characters long, holds no {{...}} placeholder and does not end in
\* _true or _false (in any letter case), simplify_display_value(key, key + "_" +
\* suffix) is suffix.
C10_Amended ==
  Returned("simplify_display_value") =>
    \A s \in DisplaySuffixes :
      LET val == call.key \o "_" \o s
      IN (/\ call.raw_val = PyStr(val)
          /\ ~C10_EndsInBooleanToken(val)
          /\ Len(val) <= 120
          /\ ~(\E i \in 1..Len(val) : \E j \in (i + 2)..Len(val) :
                 /\ j + 1 <= Len(val)
                 /\ SubSeq(val, i, i + 1) = "{{"
                 /\ SubSeq(val, j, j + 1) = "}}"))
         => ret.v = s

\* The key prefix and exactly one underscore were stripped from a suffix that
\* itself starts with an underscore.
C10_Witness ==
  /\ Returned("simplify_display_value")
  /\ call.key = "com.acme.x"
  /\ call.raw_val = PyStr("com.acme.x__1")
  /\ ret.v = "_1"

\* "{{", later "}}": a double-curly-brace token, whatever stands between
C11_HasToken(v) ==
  \E i \in 1..Len(v) : \E j \in (i + 2)..(Len(v) - 1) :
    SubSeq(v, i, i + 1) = "{{" /\ SubSeq(v, j, j + 1) = "}}"

\* the same with no line break between the braces
C11_HasTokenOnOneLine(v) ==
  \E i \in 1..Len(v) : \E j \in (i + 2)..(Len(v) - 1) :
    /\ SubSeq(v, i, i + 1) = "{{" /\ SubSeq(v, j, j + 1) = "}}"
    /\ \A k \in (i + 2)..(j - 1) : SubSeq(v, k, k) # "\n"

\* C11 as stated: for every key and every string value that holds a {{...}}
\* token, simplify_display_value(key, value) is the value, whatever its length.
C11_AsStated ==
  (Returned("simplify_display_value") /\ call.raw_val.t = "str" /\ C11_HasToken(call.raw_val.v))
    => ret.v = call.raw_val.v

\* C11 amended: for every key and every string value of at most 120
\* characters that holds a {{...}} token with no line break inside it,
\* simplify_display_value(key, value) is the value, whether or not it begins
\* with key or ends in a boolean suffix.
C11_Amended ==
  (/\ Returned("simplify_display_value")
   /\ call.raw_val.t = "str"
   /\ Len(call.raw_val.v) <= 120
   /\ C11_HasTokenOnOneLine(call.raw_val.v))
    => ret.v = call.raw_val.v

\* A value that begins with the key and ends in a boolean suffix came back as
\* it was, because of the token in it.
C11_Witness ==
  /\ Returned("simplify_display_value")
  /\ call.key = "k"
  /\ call.raw_val = PyStr("k_{{mail}}_true")
  /\ ret.v = "k_{{mail}}_true"

C12_TrueTokens == {"_true", "_True", "_TRUE"}
C12_FalseTokens == {"_false", "_False", "_FALSE"}

\* The answer the claim gives for key followed by a boolean token, "" for any other value
C12_Mapped(key, raw_val) ==
  IF raw_val \in {PyStr(key \o t) : t \in C12_TrueTokens} THEN "True"
  ELSE IF raw_val \in {PyStr(key \o t) : t \in C12_FalseTokens} THEN "False"
  ELSE ""

\* C12 as stated: for every non-empty key k, simplify_display_value(k, k +
\* "_true") is "True" and simplify_display_value(k, k + "_false") is "False",
\* the token in any letter case.
C12_AsStated ==
  (Returned("simplify_display_value") /\ call.key # "" /\ C12_Mapped(call.key, call.raw_val) # "")
    => ret.v = C12_Mapped(call.key, call.raw_val)

\* C12 amended: the same for every non-empty key k such that k followed by
\* the token is at most 120 characters long and holds no {{...}} token.
C12_Amended ==
  (/\ Returned("simplify_display_value")
   /\ call.key # ""
   /\ C12_Mapped(call.key, call.raw_val) # ""
   /\ Len(call.raw_val.v) <= 120
   /\ ~C11_HasTokenOnOneLine(call.raw_val.v))
    => ret.v = C12_Mapped(call.key, call.raw_val)

\* A multi-segment key followed by the upper-case token gave "False".
C12_Witness ==
  /\ Returned("simplify_display_value")
  /\ call.key = "com.acme.x"
  /\ call.raw_val = PyStr("com.acme.x_FALSE")
  /\ ret.v = "False"

\* C13: for every string v, simplify_value(v) is v when v has at most 120
\* characters, and otherwise the first 117 characters of v followed by "...",
\* 120 characters in all; no result for a string is longer than 120 characters.
C13_Truncation ==
  (Returned("simplify_value") /\ call.val.t = "str") =>
    LET v == call.val.v
    IN /\ Len(v) <= 120 => ret.v = v
       /\ Len(v) > 120 => (ret.v = SubSeq(v, 1, 117) \o "..." /\ Len(ret.v) = 120)
       /\ Len(ret.v) <= 120

\* A string of 121 characters came back as its first 117 and the marker.
C13_Witness ==
  /\ Returned("simplify_value")
  /\ call.val.t = "str"
  /\ Len(call.val.v) = 121
  /\ Len(ret.v) = 120
  /\ SubSeq(ret.v, 115, 120) = "456..."

(***************************************************************************)
(* Claims about extract_settings_catalog                                   *)
(***************************************************************************)
RECURSIVE DictNodes(_)
\* every dict in x, at any depth
DictNodes(x) ==
  IF x.t = "dict" THEN {x} \cup UNION {DictNodes(x.v[i][2]) : i \in 1..Len(x.v)}
  ELSE IF x.t = "list" THEN UNION {DictNodes(x.v[i]) : i \in 1..Len(x.v)}
  ELSE {}

\* the dicts of the settings collection that carry a non-empty string identifier
SettingNodesOf(doc) ==
  {n \in DictNodes(DictGet(doc, "settings", PyList(<<>>))) :
     LET id == DictGet(n, "settingDefinitionId", PyNone) IN id.t = "str" /\ id.v # ""}

IdOf(n) == DictGet(n, "settingDefinitionId", PyNone).v

\* the pairs of out keyed by id or by id[...]; the identifiers of one document
\* given to the function are all different
Contribution(out, id) ==
  SelectSeq(out, LAMBDA p : p[1] = id \/ StartsWith(p[1], id \o "["))

HasValue(block) == block.t = "dict" /\ DictGet(block, "value", PyNone).t # "none"

ValuedEntries(n) ==
  LET block == DictGet(n, "simpleSettingCollectionValue", PyNone)
  IN IF block.t = "list" THEN {i \in 1..Len(block.v) : HasValue(block.v[i])} ELSE {}

\* C14 as stated: a node with an identifier, a choice-value container (a
\* mapping) and a collection container (a list) contributes at least 2 pairs.
C14_AsStated ==
  Returned("extract_settings_catalog") =>
    \A n \in SettingNodesOf(call.json_doc) :
      (/\ DictGet(n, "choiceSettingValue", PyNone).t = "dict"
       /\ DictGet(n, "simpleSettingCollectionValue", PyNone).t = "list")
        => Len(Contribution(ret.v.out, IdOf(n))) >= 2

\* C14 amended: a node with a string identifier contributes one pair for its
\* choice container if that holds a non-null value, one for its scalar
\* container if that holds a non-null value, and one per collection entry
\* holding a non-null value, each whatever the other carriers are; so at
\* least 2 when the choice container and one collection entry hold a value.
C14_Amended ==
  Returned("extract_settings_catalog") =>
    \A n \in SettingNodesOf(call.json_doc) :
      LET choice == IF HasValue(DictGet(n, "choiceSettingValue", PyNone)) THEN 1 ELSE 0
          simple == IF HasValue(DictGet(n, "simpleSettingValue", PyNone)) THEN 1 ELSE 0
          count == Len(Contribution(ret.v.out, IdOf(n)))
      IN /\ count = choice + simple + Cardinality(ValuedEntries(n))
         /\ (choice = 1 /\ ValuedEntries(n) # {}) => count >= 2

\* A node with a choice value and a collection of two values gave three pairs.
C14_Witness ==
  /\ Returned("extract_settings_catalog")
  /\ \E n \in SettingNodesOf(call.json_doc) :
       /\ HasValue(DictGet(n, "choiceSettingValue", PyNone))
       /\ ~HasKey(n, "simpleSettingValue")
       /\ Cardinality(ValuedEntries(n)) = 2
  /\ ret.v.out = << <<"a.b", "1">>, <<"a.b[0]", "1">>, <<"a.b[1]", "2">> >>

\* the collection of n when all its entries hold a non-null scalar value
ScalarCollection(n) ==
  LET block == DictGet(n, "simpleSettingCollectionValue", PyNone)
  IN /\ block.t = "list"
     /\ \A i \in 1..Len(block.v) :
          HasValue(block.v[i]) /\ DictGet(block.v[i], "value", PyNone).t \in {"str", "int", "bool"}

\* C15: for a node with identifier id whose collection holds n entries, each
\* with a non-null scalar value, the pairs keyed id[...] are exactly
\* (id[i], normalized value i) for i = 0..n-1, in increasing i.
C15_CollectionExpansion ==
  Returned("extract_settings_catalog") =>
    \A n \in SettingNodesOf(call.json_doc) :
      ScalarCollection(n) =>
        LET block == DictGet(n, "simpleSettingCollectionValue", PyNone).v
        IN SelectSeq(ret.v.out, LAMBDA p : StartsWith(p[1], IdOf(n) \o "["))
             = [i \in 1..Len(block) |->
                  <<IdOf(n) \o "[" \o IntToStr(i - 1) \o "]",
                    simplify_display_value(IdOf(n), DictGet(block[i], "value", PyNone))>>]

\* The collection [{value: 1}, {value: 2}] of com.acme.list was expanded.
C15_Witness ==
  /\ Returned("extract_settings_catalog")
  /\ call.json_doc = Doc_Collection
  /\ ret.v.out = << <<"com.acme.list[0]", "1">>, <<"com.acme.list[1]", "2">> >>

RECURSIVE PreOrder(_)
RECURSIVE PreOrderEach(_, _)
\* the dicts of x, each before the dicts inside it, siblings in document order
PreOrder(x) ==
  IF x.t = "dict" THEN <<x>> \o PreOrderEach([i \in 1..Len(x.v) |-> x.v[i][2]], 1)
  ELSE IF x.t = "list" THEN PreOrderEach(x.v, 1)
  ELSE <<>>

PreOrderEach(xs, i) ==
  IF i > Len(xs) THEN <<>> ELSE PreOrder(xs[i]) \o PreOrderEach(xs, i + 1)

RECURSIVE PairsOf(_, _)
\* the carrier pairs of the nodes ns[i..], one node after the other
PairsOf(ns, i) ==
  IF i > Len(ns) THEN <<>> ELSE NodePairs(ns[i]).out \o PairsOf(ns, i + 1)

\* C19: the output is the carrier pairs of the dicts reachable from the
\* settings collection, in pre-order: each dict once, its own pairs before
\* those of the dicts inside it, siblings in document order.
C19_PreOrderTraversal ==
  Returned("extract_settings_catalog") =>
    ret.v.out = PairsOf(PreOrder(DictGet(call.json_doc, "settings", PyList(<<>>))), 1)

\* A node whose children come before its identifier in the document gave its
\* own pair first, then the pair of the child, then the pair of its sibling.
C19_Witness ==
  /\ Returned("extract_settings_catalog")
  /\ ret.v.out = << <<"a.b", "3">>, <<"c.d", "on">>, <<"e", "0">> >>

(***************************************************************************)
(* Claims about extract_mobileconfig                                       *)
(***************************************************************************)
C16_Metadata == {"PayloadDisplayName", "PayloadIdentifier", "PayloadType", "PayloadUUID", "PayloadVersion"}

RECURSIVE C16_FieldKeys(_, _, _)
\* "<payload type>.<field>" for the fields of payload from position i that
\* are not metadata, in field order
C16_FieldKeys(prefix, payload, i) ==
  IF i > Len(payload.v) THEN <<>>
  ELSE (IF payload.v[i][1] \in C16_Metadata THEN <<>> ELSE <<prefix \o "." \o payload.v[i][1]>>)
       \o C16_FieldKeys(prefix, payload, i + 1)

RECURSIVE C16_Keys(_, _)
C16_Keys(payloads, i) ==
  IF i > Len(payloads) THEN <<>>
  ELSE (IF payloads[i].t = "dict"
        THEN C16_FieldKeys(DictGet(payloads[i], "PayloadType", PyStr("payload")).v, payloads[i], 1)
        ELSE <<>>)
       \o C16_Keys(payloads, i + 1)

\* C16: for a list of payloads, the keys of the output are "<payload
\* type>.<field>" for every field that is not metadata, one pair per field, in
\* field order; a list or dict field has the value "complex:list" or
\* "complex:dict" and none of its fields is a key.
C16_OnePairPerField ==
  (Returned("extract_mobileconfig") /\ DictGet(call.plist_doc, "PayloadContent", PyNone).t = "list") =>
    LET payloads == DictGet(call.plist_doc, "PayloadContent", PyNone).v
        out == ret.v.out
    IN /\ [i \in 1..Len(out) |-> out[i][1]] = C16_Keys(payloads, 1)
       /\ \A i \in 1..Len(out) : \A j \in 1..Len(payloads) :
            (payloads[j].t = "dict" /\ DictGet(payloads[j], "Proxy", PyNone).t \in {"list", "dict"}
             /\ out[i][1] = "com.apple.wifi.managed.Proxy")
              => out[i][2] = "complex:" \o DictGet(payloads[j], "Proxy", PyNone).t

(***************************************************************************)
(* Claims about extract_compliance_policy                                  *)
(***************************************************************************)
\* how many pairs right after position p have a key that starts with prefix
Following(out, p, prefix) ==
  Cardinality({q \in (p + 1)..Len(out) : \A r \in (p + 1)..q : StartsWith(out[r][1], prefix)})

C17_RuleName(rule, idx) == DictGet(rule, "ruleName", PyStr("rule_" \o IntToStr(idx))).v

\* C17: for every rule object of the scheduled-actions list, also one with an
\* empty action list, the output has a pair recording the rule's action
\* count, followed at once by that many action pairs, one per action
\* configuration.
C17_SummaryPerRule ==
  (Returned("extract_compliance_policy")
   /\ DictGet(call.json_doc, "scheduledActionsForRule", PyNone).t = "list") =>
    LET rules == DictGet(call.json_doc, "scheduledActionsForRule", PyNone).v
        out == ret.v.out
    IN \A j \in 1..Len(rules) :
         (/\ rules[j].t = "dict"
          /\ DictGet(rules[j], "scheduledActionConfigurations", PyList(<<>>)).t = "list") =>
           LET name == "scheduledActionsForRule." \o C17_RuleName(rules[j], j - 1)
               configs == DictGet(rules[j], "scheduledActionConfigurations", PyList(<<>>)).v
           IN \E p \in 1..Len(out) :
                /\ out[p][1] = name \o ".actionCount"
                /\ out[p][2] = IntToStr(Len(configs))
                /\ Following(out, p, name \o ".action_") = Len(configs)

(***************************************************************************)
(* Claims about numeric values and the boolean-suffix rule                 *)
(***************************************************************************)
C18_Decimal(n) ==
  CASE n = 0 -> "0"
    [] n = 1 -> "1"
    [] n = 12 -> "12"
    [] n = -3 -> "-3"

\* C18: for a numeric raw value, simplify_display_value(key, raw) is the
\* decimal string of the value, for every key, also for a key that is a
\* prefix of that string.
C18_NumericUnchanged ==
  (Returned("simplify_display_value") /\ call.raw_val.t = "int")
    => ret.v = C18_Decimal(call.raw_val.v)

\* The portion before the suffix is related to the key: it is the key, it
\* ends with the non-empty last dot-segment of the key, or its own non-empty
\* last dot-segment is a prefix of the key.
C20_Related(key, prefix_part) ==
  \/ prefix_part = key
  \/ LastSegment(key) # "" /\ EndsWith(prefix_part, LastSegment(key))
  \/ LastSegment(prefix_part) # "" /\ StartsWith(key, LastSegment(prefix_part))

\* C20: a value ending in _true or _false that simplify_display_value turned
\* into "True" or "False" has a related portion before the suffix; the bare
\* token, and a value whose portion before the suffix ends in a dot, are
\* never turned into "True" or "False".
C20_OnlyRelatedMapped ==
  (/\ Returned("simplify_display_value")
   /\ call.raw_val.t = "str"
   /\ call.key # ""
   /\ \/ EndsWith(Lower(call.raw_val.v), "_true") /\ ret.v = "True"
      \/ EndsWith(Lower(call.raw_val.v), "_false") /\ ret.v = "False")
    => C20_Related(call.key,
                   IF ret.v = "True" THEN SubSeq(call.raw_val.v, 1, Len(call.raw_val.v) - 5)
                   ELSE SubSeq(call.raw_val.v, 1, Len(call.raw_val.v) - 6))

====
